---- MODULE Spec2Model ----
(***************************************************************************)
(* A model of QDB's Connection (cache-first reads, write-through writes,   *)
(* schema defaults) and of its cache strategies.                           *)
(*                                                                         *)
(* Documents are value trees.  Object identity matters in three places of  *)
(* the code: the schema's model object can be put in the cache as it is    *)
(* (fetch, line 494), fetch can hand out an object of the cache or of the  *)
(* model (lines 483, 493), and set writes in place into what fetch handed  *)
(* out (line 446).  A cache entry or a held value that IS the model object *)
(* is the node ModelRef; every other tree is owned by its holder.          *)
(***************************************************************************)
EXTENDS Integers, Sequences, FiniteSets, TLC

VARIABLES store, memoryStore, model, cfg, last, selection, secondarySelection,
          API, transactions, timer, connections

vars == <<store, memoryStore, model, cfg, last, selection, secondarySelection,
          API, transactions, timer, connections>>

(***************************************************************************)
(* Bounds                                                                  *)
(***************************************************************************)
MaxSize == 2
MaxVal == 2
MaxItems == 3

Keys == {"k1", "k2"}
StrategyKeys == {"k1", "k2", "k3"}

(***************************************************************************)
(* Values                                                                  *)
(***************************************************************************)
Undef == [t |-> "undef"]
Absent == [t |-> "absent"]
Fail == [t |-> "fail"]
Num(n) == [t |-> "num", v |-> n]
Obj(f) == [t |-> "obj", f |-> f]
Arr(e) == [t |-> "arr", e |-> e]
Str(x) == [t |-> "str", v |-> x]
ModelRef == [t |-> "mref"]
ModelPart(path) == [t |-> "mpart", path |-> path]
Empty == [x \in {} |-> Undef]
TimestampField == "_timestamp"
DateNow == Num(0)

Put(f, k, v) == [x \in DOMAIN f \cup {k} |-> IF x = k THEN v ELSE f[x]]
Remove(f, k) == [x \in DOMAIN f \ {k} |-> f[x]]

IsDataModel(v) == v.t \in {"obj", "arr"}

DeleteTimestamp(v) == IF v.t = "obj" THEN Obj(Remove(v.f, TimestampField)) ELSE v
HasTimestamp(v) == v.t = "obj" /\ TimestampField \in DOMAIN v.f

RECURSIVE DropUndefined(_)
DropUndefined(v) ==
    IF v.t # "obj" THEN v
    ELSE Obj([x \in {y \in DOMAIN v.f : v.f[y] # Undef} |-> DropUndefined(v.f[x])])

Stringify(v) == [t |-> "json", text |-> DropUndefined(v)]
Parse(row) == row.text

ResolveKeyPath(pathlike) == [keyContext |-> Head(pathlike), path |-> Tail(pathlike)]

RECURSIVE PathGet(_, _)
PathGet(frame, path) ==
    IF path = <<>> THEN frame
    ELSE IF frame.t = "obj" /\ Head(path) \in DOMAIN frame.f
         THEN PathGet(frame.f[Head(path)], Tail(path))
         ELSE Undef

\* The tree a held value stands for: the model object where it is ModelRef,
\* the model's object at a path where it is a ModelPart.
RECURSIVE Deref(_, _)
Deref(v, s) ==
    IF v = ModelRef THEN s.model
    ELSE IF v.t = "mpart" THEN PathGet(s.model, v.path)
    ELSE IF v.t = "obj" THEN Obj([x \in DOMAIN v.f |-> Deref(v.f[x], s)])
    ELSE v

Clone(v, s) == Deref(v, s)

RECURSIVE PathPut(_, _, _)
PathPut(frame, path, item) ==
    IF frame.t # "obj" THEN Fail
    ELSE IF Len(path) = 1 THEN Obj(Put(frame.f, Head(path), item))
    ELSE LET child == IF Head(path) \in DOMAIN frame.f
                      THEN frame.f[Head(path)]
                      ELSE Obj(Empty)
             sub == PathPut(child, Tail(path), item)
         IN  IF sub = Fail THEN Fail ELSE Obj(Put(frame.f, Head(path), sub))

(***************************************************************************)
(* The cache map (a Map in insertion order)                                *)
(***************************************************************************)
MemKeys(m) == {m[i].key : i \in 1..Len(m)}
MemHas(m, k) == k \in MemKeys(m)
MemGet(m, k) == IF MemHas(m, k)
                THEN (CHOOSE e \in {m[i] : i \in 1..Len(m)} : e.key = k).doc
                ELSE Undef
MemSet(m, k, d) ==
    IF MemHas(m, k)
    THEN [i \in 1..Len(m) |-> IF m[i].key = k THEN [key |-> k, doc |-> d] ELSE m[i]]
    ELSE Append(m, [key |-> k, doc |-> d])
MemKeep(e, ks) == e.key \notin ks
MemDelete(m, ks) == SelectSeq(m, LAMBDA e : MemKeep(e, ks))

(***************************************************************************)
(* Cache strategies                                                        *)
(***************************************************************************)
Stamp(v) == Obj(Put(v.f, TimestampField, DateNow))

\* CacheStrategy.patch: stamps the document object and maps the key to it.
BasePatch(s, keyContext, document) ==
    IF document = ModelRef
    THEN [s EXCEPT !.model = Stamp(s.model),
                   !.mem = MemSet(s.mem, keyContext, ModelRef)]
    ELSE [s EXCEPT !.mem = MemSet(s.mem, keyContext, Stamp(document))]

\* The eviction policies: what the algorithm returns and what it leaves.
EvictionAlgorithm(policy, m) ==
    IF policy = "oldest" /\ Len(m) > 0
    THEN [ok |-> TRUE, mem |-> Tail(m)]
    ELSE [ok |-> FALSE, mem |-> m]

\* RestrictedCacheStrategy.patch, given what the eviction algorithm does
\* when it is called on the current map.
\* (a capacity test that is off by one)
RefusedLate(s, keyContext, strategy, outcome) ==
    /\ ~strategy.unbounded
    /\ Len(s.mem) > strategy.maxSize
    /\ ~MemHas(s.mem, keyContext)
    /\ ~outcome.ok
Refused(s, keyContext, strategy, outcome) ==
    /\ ~strategy.unbounded
    /\ Len(s.mem) >= strategy.maxSize
    /\ ~MemHas(s.mem, keyContext)
    /\ ~outcome.ok

Called(s, keyContext, strategy) ==
    /\ ~strategy.unbounded
    /\ Len(s.mem) >= strategy.maxSize
    /\ ~MemHas(s.mem, keyContext)

RestrictedPatch(s, keyContext, document, strategy, outcome) ==
    LET evicted == IF Called(s, keyContext, strategy)
                   THEN [s EXCEPT !.mem = outcome.mem]
                   ELSE s
    IN  IF Refused(s, keyContext, strategy, outcome)
        THEN evicted
        ELSE BasePatch(evicted, keyContext, document)

Strategy == [unbounded |-> cfg.unbounded, maxSize |-> cfg.maxSize]
PatchRefused(s, keyContext) ==
    Refused(s, keyContext, Strategy, EvictionAlgorithm(cfg.evictionAlgorithm, s.mem))
Patch(s, keyContext, document) ==
    RestrictedPatch(s, keyContext, document, Strategy,
                    EvictionAlgorithm(cfg.evictionAlgorithm, s.mem))

(***************************************************************************)
(* Connection: results of an operation                                     *)
(*   s       the Connection's state after the call                         *)
(*   ret     the returned value (a tree, as the caller sees it on return)  *)
(*   share   what object the returned value is: "none" for an object of    *)
(*           its own, "cache" for an object held in the cache map,         *)
(*           "model" for an object of the schema model                     *)
(*   err     the call threw                                                *)
(*   refused the strategy refused an admission during the call             *)
(* A step of an operation takes what the steps before it computed as its   *)
(* parameters.                                                             *)
(***************************************************************************)
Result(s, ret, share, refused) ==
    [s |-> s, ret |-> ret, share |-> share, err |-> FALSE, refused |-> refused]
Thrown(s, refused) ==
    [s |-> s, ret |-> Undef, share |-> "none", err |-> TRUE, refused |-> refused]

fetchAll == 0

\* fetch with assumeCache: only the cache map, the object itself (479-484).
Shared(cachedObject, value) ==
    IF ~IsDataModel(value) THEN "none"
    ELSE IF cachedObject = ModelRef THEN "model" ELSE "cache"
FetchCached(s, cachedObject, path) ==
    IF cachedObject = Undef
    THEN Result(s, Undef, "none", FALSE)
    ELSE Result(s, PathGet(Deref(cachedObject, s), path),
                Shared(cachedObject, PathGet(Deref(cachedObject, s), path)), FALSE)
FetchAssumed(s, keyContext, path) ==
    FetchCached(s, MemGet(s.mem, keyContext), path)

\* fetch without assumeCache and without defaults: cache, then store (501-517).
Fetched(s, keyContext) ==
    IF MemHas(s.mem, keyContext) THEN MemGet(s.mem, keyContext)
    ELSE IF s.store[keyContext] = Absent THEN Undef
    ELSE Parse(s.store[keyContext])
Projected(documentClone, path) ==
    IF IsDataModel(PathGet(documentClone, path))
    THEN DeleteTimestamp(PathGet(documentClone, path))
    ELSE PathGet(documentClone, path)
FetchAdmitted(s, keyContext, path, fetched, refused) ==
    Result(Patch(s, keyContext, fetched),
           Projected(IF refused THEN fetched ELSE Stamp(fetched), path),
           "none", refused)
FetchFrom(s, keyContext, path, cache, fetched) ==
    IF fetched = Undef
    THEN Result(s, Undef, "none", FALSE)
    ELSE IF cache /\ ~MemHas(s.mem, keyContext)
         THEN FetchAdmitted(s, keyContext, path, fetched, PatchRefused(s, keyContext))
         ELSE Result(s, Projected(Clone(fetched, s), path), "none", FALSE)
FetchStored(s, keyContext, path, cache) ==
    FetchFrom(s, keyContext, path, cache, Fetched(s, keyContext))

\* fetch with defaults and a schema: the model's value on a miss (486-499).
\* (a fetch that saves the default it materializes)
DefaultSaved(s, keyContext, path, defaultValue, refused) ==
    IF IsDataModel(defaultValue)
    THEN Result([s EXCEPT !.store[keyContext] = Stringify(s.model)],
                PathGet(s.model, path), "model", refused)
    ELSE Result([s EXCEPT !.store[keyContext] = Stringify(s.model)],
                defaultValue, "none", refused)
DefaultReturned(s, keyContext, path, defaultValue, refused) ==
    IF IsDataModel(defaultValue)
    THEN Result(s, PathGet(s.model, path), "model", refused)
    ELSE Result(s, defaultValue, "none", refused)
FetchMissed(r, keyContext, path, cache) ==
    IF r.ret # Undef THEN r
    ELSE IF cache /\ ~MemHas(r.s.mem, keyContext)
         THEN DefaultReturned(Patch(r.s, keyContext, ModelRef), keyContext, path,
                              PathGet(r.s.model, path),
                              r.refused \/ PatchRefused(r.s, keyContext))
         ELSE DefaultReturned(r.s, keyContext, path, PathGet(r.s.model, path),
                              r.refused)
FetchDefault(s, keyContext, path, cache) ==
    FetchMissed(FetchStored(s, keyContext, path, cache), keyContext, path, cache)

Fetch(s, keyContext, path, cache, assumeCache, defaults) ==
    IF assumeCache THEN FetchAssumed(s, keyContext, path)
    ELSE IF defaults /\ cfg.dataSchema THEN FetchDefault(s, keyContext, path, cache)
    ELSE FetchStored(s, keyContext, path, cache)

Exists(s, keyContext, path, cache) ==
    Fetch(s, keyContext, path, cache, cfg.unsafeAssumeCache, cfg.defaults)

\* set: the write-through and the refresh of the cache entry (452-460).
Refreshed(s, keyContext, held, cache, refused) ==
    IF cache \/ fetchAll > 0 \/ MemHas(s.mem, keyContext)
    THEN Result(Patch(s, keyContext, held), Undef, "none",
                refused \/ PatchRefused(s, keyContext))
    ELSE Result(s, Undef, "none", refused)
\* (a set that writes to the store only what the cache flag lets it cache)
PersistedCached(s, keyContext, held, cache, refused) ==
    IF cache
    THEN Refreshed([s EXCEPT !.store[keyContext] = Stringify(Deref(held, s))],
                   keyContext, held, cache, refused)
    ELSE Refreshed(s, keyContext, held, cache, refused)
Persisted(s, keyContext, held, cache, refused) ==
    Refreshed([s EXCEPT !.store[keyContext] = Stringify(Deref(held, s))],
              keyContext, held, cache, refused)

\* set, nested path: the write into what fetch handed out (444-446).  The
\* write is in place: it changes the object fetch returned, which may be an
\* object of the cache or the schema's model.
DocumentOld(old) == IF old.ret = Undef THEN Obj(Empty) ELSE old.ret
SharedOld(old) == IF old.ret = Undef THEN "none" ELSE old.share
WrittenInPlace(old, keyContext, written) ==
    IF SharedOld(old) = "model" THEN [old.s EXCEPT !.model = written]
    ELSE IF SharedOld(old) = "cache"
         THEN [old.s EXCEPT !.mem = MemSet(old.s.mem, keyContext, written)]
         ELSE old.s
SetWritten(old, keyContext, written, cache, refused) ==
    IF written = Fail
    THEN Thrown(old.s, refused)
    ELSE Persisted(WrittenInPlace(old, keyContext, written), keyContext,
                   IF SharedOld(old) = "model" THEN ModelRef ELSE written,
                   cache, refused)
SetNested(old, keyContext, path, document, cache, refused) ==
    SetWritten(old, keyContext, PathPut(DocumentOld(old), path, document), cache,
               refused \/ old.refused)

\* set from the nested write on (444-460).
SetWrite(s, keyContext, path, document, cache, refused) ==
    IF path # <<>>
    THEN SetNested(Fetch(s, keyContext, <<>>, TRUE, cfg.unsafeAssumeCache, cfg.defaults),
                   keyContext, path, document, cache, refused)
    ELSE IF ~IsDataModel(document)
         THEN Thrown(s, refused)
         ELSE Persisted(s, keyContext, document, cache, refused)

\* set with defaults and a schema: the model's copy for an absent key (436-442).
SetModel(e, keyContext, filled, cache) ==
    IF filled = Fail
    THEN Thrown(e.s, e.refused)
    ELSE SetWrite(e.s, keyContext, <<>>, filled, cache, e.refused)
SetDefaults(e, keyContext, path, document, cache) ==
    IF e.ret # Undef
    THEN SetWrite(e.s, keyContext, path, document, cache, e.refused)
    ELSE SetModel(e, keyContext,
                  IF path # <<>>
                  THEN PathPut(Clone(ModelRef, e.s), path, document)
                  ELSE Clone(ModelRef, e.s),
                  cache)

Set(s, keyContext, path, document, cache, defaults) ==
    IF defaults /\ cfg.dataSchema
    THEN SetDefaults(Exists(s, keyContext, <<>>, cfg.utilityCache),
                     keyContext, path, document, cache)
    ELSE SetWrite(s, keyContext, path, document, cache, FALSE)

\* (an evict that clears the map whatever it is given)
EvictAll(s, keyContexts) == [s EXCEPT !.mem = <<>>]

Evict(s, keyContexts) ==
    IF keyContexts # {}
    THEN [s EXCEPT !.mem = MemDelete(s.mem, keyContexts)]
    ELSE [s EXCEPT !.mem = <<>>]

\* (an erase that evicts whatever it is given, no key included)
EraseEvicting(s, keyContexts) ==
    [Evict(s, keyContexts) EXCEPT
        !.store = [k \in Keys |-> IF k \in keyContexts THEN Absent ELSE s.store[k]]]

Erase(s, keyContexts) ==
    IF keyContexts # {}
    THEN [Evict(s, keyContexts) EXCEPT
            !.store = [k \in Keys |-> IF k \in keyContexts THEN Absent ELSE s.store[k]]]
    ELSE s

\* The predicates callers pass to find, each and select.
Predicates == {"all", "a1", "k2"}
Satisfies(predicate, document, keyContext) ==
    CASE predicate = "all" -> TRUE
      [] predicate = "a1" -> PathGet(document, <<"a">>) = Num(1)
      [] predicate = "k2" -> keyContext = "k2"

\* The rows of the table, in the order the list statement returns them.
KeyOrder == <<"k1", "k2">>
IsRow(s, k) == s.store[k] # Absent
Rows(s) == SelectSeq(KeyOrder, LAMBDA k : IsRow(s, k))

RECURSIVE FirstCached(_, _, _)
FirstCached(s, m, predicate) ==
    IF m = <<>> THEN Undef
    ELSE IF Satisfies(predicate, Deref(Head(m).doc, s), Head(m).key)
         THEN Clone(Head(m).doc, s)
         ELSE FirstCached(s, Tail(m), predicate)

RECURSIVE FirstRow(_, _, _)
FirstRow(s, rows, predicate) ==
    IF rows = <<>> THEN Undef
    ELSE IF Satisfies(predicate, Parse(s.store[Head(rows)]), Head(rows))
         THEN Parse(s.store[Head(rows)])
         ELSE FirstRow(s, Tail(rows), predicate)

\* find: the rows the list statement reads from the store (590-592) and the
\* rows the scan decodes (594-596).
RECURSIVE Decoded(_, _, _)
Decoded(s, rows, predicate) ==
    IF rows = <<>> THEN <<>>
    ELSE IF Satisfies(predicate, Parse(s.store[Head(rows)]), Head(rows))
         THEN <<Head(rows)>>
         ELSE <<Head(rows)>> \o Decoded(s, Tail(rows), predicate)
RowsRead(s, predicate, cache) ==
    IF cache /\ FirstCached(s, s.mem, predicate) # Undef THEN <<>> ELSE Rows(s)
RowsDecoded(s, predicate, cache) ==
    IF cache /\ FirstCached(s, s.mem, predicate) # Undef THEN <<>>
    ELSE Decoded(s, Rows(s), predicate)

\* (a find that scans the cache map whatever its cache flag)
FindCached(s, predicate, cache) ==
    IF FirstCached(s, s.mem, predicate) # Undef
    THEN Result(s, FirstCached(s, s.mem, predicate), "none", FALSE)
    ELSE Result(s, FirstRow(s, Rows(s), predicate), "none", FALSE)

Find(s, predicate, cache) ==
    LET hit == IF cache THEN FirstCached(s, s.mem, predicate) ELSE Undef
    IN  IF hit # Undef
        THEN Result(s, hit, "none", FALSE)
        ELSE Result(s, FirstRow(s, Rows(s), predicate), "none", FALSE)

Each(s) == s

\* select: what it does to the Connection (the fetch of a pathlike, 622-624).
SelectPath(s, keyContext, path) ==
    Fetch(s, keyContext, path, TRUE, cfg.unsafeAssumeCache, cfg.defaults)
SelectWhere(s, predicate) == s

\* The table a Connection is opened on.
Table == "Users"
\* A Collection: its entries in insertion order.
Coll(e) == [t |-> "coll", e |-> e]
\* typeof entities === "function" (17).
IsInitialCollection(entities) == entities.t = "function"
\* The properties a for-in loop walks (30-31): the fields of an object and the
\* indexes of an array; a Collection keeps its entries outside its properties,
\* and a scalar or undefined has none.
FieldOrder == <<"a", "b", "c", "items", TimestampField>>
Fields(entities) == SelectSeq(FieldOrder, LAMBDA x : x \in DOMAIN entities.f)
Enumerated(entities) ==
    IF entities.t = "obj"
    THEN [i \in 1..Len(Fields(entities)) |->
            [key |-> Fields(entities)[i], doc |-> entities.f[Fields(entities)[i]]]]
    ELSE IF entities.t = "arr"
    THEN [i \in 1..Len(entities.e) |-> [key |-> ToString(i - 1), doc |-> entities.e[i]]]
    ELSE <<>>
\* new Selection(entities, holds) (16-41).
\* shares names the object whose properties the documents of the Selection are:
\* an object of the caller's ("none"), the object at a path of a cache entry
\* ("cache"), or the object at a path of the schema's model ("model").
Alias(share, keyContext, path) == [share |-> share, key |-> keyContext, path |-> path]
Unshared == Alias("none", "", <<>>)
Selection(entities, holds) ==
    [t |-> "selection",
     cache |-> IF IsInitialCollection(entities) THEN entities.e ELSE Enumerated(entities),
     holds |-> holds,
     shares |-> Unshared]

\* select: the rows the scan retains (626-637) and the Selection returned (640-641).
RECURSIVE Accumulated(_, _, _)
Accumulated(s, rows, predicate) ==
    IF rows = <<>> THEN <<>>
    ELSE IF Satisfies(predicate, Parse(s.store[Head(rows)]), Head(rows))
         THEN <<[key |-> Head(rows), doc |-> Parse(s.store[Head(rows)])]>>
                  \o Accumulated(s, Tail(rows), predicate)
         ELSE Accumulated(s, Tail(rows), predicate)
SelectedWhere(s, predicate) == Selection(Coll(Accumulated(s, Rows(s), predicate)), Table)
SelectedPath(r) == Selection(Deref(r.ret, r.s), Table)
SelectedOf(r, keyContext, path) ==
    [SelectedPath(r) EXCEPT !.shares = Alias(r.share, keyContext, path)]

\* limit: the arguments after 113-116, the test of 119 and the entries the loop
\* of 118-122 leaves.  The call returns nothing.
Falsy(v) == v \in {Undef, Num(0), Str("")}
Amount(extractionStartOffset, amount) ==
    IF Falsy(amount) THEN extractionStartOffset.v ELSE amount.v
Offset(extractionStartOffset, amount) ==
    IF Falsy(amount) THEN 0 ELSE extractionStartOffset.v
DeletedOutside(pointer, offset, amount) == offset > pointer \/ pointer >= offset + amount
Deleted(pointer, offset, amount) == offset > pointer /\ pointer >= offset + amount
Kept(cache, offset, amount) ==
    LET left == {i \in 1..Len(cache) : ~Deleted(i - 1, offset, amount)}
        nth[i \in 0..Len(cache)] ==
            IF i = 0 THEN 0 ELSE CHOOSE j \in left : j > nth[i - 1] /\ \A x \in left : x > nth[i - 1] => j <= x
    IN  [i \in 1..Cardinality(left) |-> cache[nth[i]]]
Limit(this, extractionStartOffset, amount) ==
    [this EXCEPT !.cache = Kept(this.cache, Offset(extractionStartOffset, amount),
                                Amount(extractionStartOffset, amount))]

\* group (133-149).  resolveKeyPath returns the segments of the pathlike in
\* one array, so the destructuring of 134 takes the first segment as key and
\* the second, a string or nothing, as path; the spread of 140 throws when
\* there is none, after the working set was cleared (136), and yields the
\* string's characters otherwise (the segments here are one character long).
\* A group's key is the text of the value found.
HasGroupPath(pathlike) == Len(pathlike) >= 2
KeyOf(property) ==
    IF property.t = "str" THEN property.v
    ELSE IF property.t = "num" THEN ToString(property.v)
    ELSE "undefined"
GroupedWith(groups, index, documentObject, property) ==
    IF MemHas(groups, property)
    THEN MemSet(groups, property, Obj(Put(MemGet(groups, property).f, index, documentObject)))
    ELSE MemSet(groups, property, Obj(index :> documentObject))
RECURSIVE Grouped(_, _, _)
Grouped(groups, entries, castPath) ==
    IF entries = <<>> THEN groups
    ELSE Grouped(GroupedWith(groups, Head(entries).key, Head(entries).doc,
                             KeyOf(PathGet(Head(entries).doc, castPath))),
                 Tail(entries), castPath)
Group(this, pathlike) ==
    IF ~HasGroupPath(pathlike)
    THEN [cache |-> <<>>, err |-> TRUE]
    ELSE [cache |-> Grouped(<<>>, this.cache, <<pathlike[1], pathlike[2]>>),
          err |-> FALSE]

\* JoinStrategy.property(name): the strategy that sets the other document as
\* the property name of this Selection's document.
Property(name) == [t |-> "property", name |-> name]
Merged(joinStrategy, documentObject, index, joinObject) ==
    IF documentObject.t = "obj"
    THEN Obj(Put(documentObject.f, joinStrategy.name, joinObject))
    ELSE documentObject

\* join: the key an entry of the secondary Selection is looked up by (165-167),
\* the lookup (168), and the loop (164-170) with the calls it makes of the
\* strategy.  No field is the empty path.
FieldId(field, entry) ==
    IF field # <<>> THEN PathGet(entry.doc, field) ELSE Str(entry.key)
Get(cache, fieldId) ==
    IF fieldId.t = "str" THEN MemGet(cache, fieldId.v) ELSE Undef
\* (a join that also adds the entries it finds no match for)
JoinedOuter(j, entry, joinStrategy, field) ==
    IF ~Falsy(Get(j.cache, FieldId(field, entry)))
    THEN [cache |-> MemSet(j.cache, FieldId(field, entry).v,
                           Merged(joinStrategy, Get(j.cache, FieldId(field, entry)),
                                  entry.key, entry.doc)),
          calls |-> Append(j.calls, [fieldId |-> FieldId(field, entry),
                                     index |-> entry.key])]
    ELSE [j EXCEPT !.cache = MemSet(j.cache, entry.key, entry.doc)]
JoinedWith(j, entry, joinStrategy, field) ==
    IF ~Falsy(Get(j.cache, FieldId(field, entry)))
    THEN [cache |-> MemSet(j.cache, FieldId(field, entry).v,
                           Merged(joinStrategy, Get(j.cache, FieldId(field, entry)),
                                  entry.key, entry.doc)),
          calls |-> Append(j.calls, [fieldId |-> FieldId(field, entry),
                                     index |-> entry.key])]
    ELSE j
RECURSIVE Joining(_, _, _, _)
Joining(j, entries, joinStrategy, field) ==
    IF entries = <<>> THEN j
    ELSE Joining(JoinedWith(j, Head(entries), joinStrategy, field), Tail(entries),
                 joinStrategy, field)
Join(this, secondary, joinStrategy, field) ==
    Joining([cache |-> this.cache, calls |-> <<>>], secondary.cache, joinStrategy, field)
\* What the strategy's writes (169) change outside the Selection: a document
\* it writes into is a property of the object the Selection was built from.
RECURSIVE WrittenThrough(_, _, _)
WrittenThrough(frame, path, entries) ==
    IF entries = <<>> THEN frame
    ELSE WrittenThrough(IF Head(entries).doc.t = "obj"
                        THEN PathPut(frame, path \o <<Head(entries).key>>,
                                     Head(entries).doc)
                        ELSE frame,
                        path, Tail(entries))
JoinedInPlace(s, shares, entries) ==
    IF shares.share = "cache"
    THEN [s EXCEPT !.mem = MemSet(s.mem, shares.key,
                                  WrittenThrough(MemGet(s.mem, shares.key),
                                                 shares.path, entries))]
    ELSE IF shares.share = "model"
    THEN [s EXCEPT !.model = WrittenThrough(s.model, shares.path, entries)]
    ELSE s

\* What a call adds to the refusals of the calls made before it.
After(r, refused) == [r EXCEPT !.refused = r.refused \/ refused]
\* A call that returns a value of the caller's in place of its callee's.
Returning(r, value) == [r EXCEPT !.ret = IF r.err THEN Undef ELSE value]

\* dataSchema.instance: the partial document merged into a copy of the model.
RECURSIVE Merge(_, _)
Merge(base, partial) ==
    IF base.t = "obj" /\ partial.t = "obj"
    THEN Obj([x \in DOMAIN base.f \cup DOMAIN partial.f |->
                IF x \notin DOMAIN partial.f THEN base.f[x]
                ELSE IF x \notin DOMAIN base.f THEN partial.f[x]
                ELSE Merge(base.f[x], partial.f[x])])
    ELSE partial
Instance(document, s) == Merge(Clone(ModelRef, s), document)

\* default: the schema's instance for a key that does not exist (740-744).
DefaultSet(e, keyContext, document) ==
    IF e.ret = Undef
    THEN After(Set(e.s, keyContext, <<>>, Instance(document, e.s),
                   cfg.insertionCache, cfg.defaults), e.refused)
    ELSE Result(e.s, Undef, "none", e.refused)
Default(s, keyContext, document) ==
    IF cfg.dataSchema
    THEN DefaultSet(Exists(s, keyContext, <<>>, cfg.utilityCache), keyContext, document)
    ELSE Result(s, Undef, "none", FALSE)

\* ensure: the document for a path that does not exist (753-760).
EnsureSet(e, keyContext, path, document) ==
    IF e.ret = Undef
    THEN After(Returning(Set(e.s, keyContext, path, document,
                             cfg.insertionCache, cfg.defaults), document), e.refused)
    ELSE After(Fetch(e.s, keyContext, path, TRUE, cfg.unsafeAssumeCache, cfg.defaults),
               e.refused)
Ensure(s, keyContext, path, document) ==
    EnsureSet(Exists(s, keyContext, path, cfg.utilityCache), keyContext, path, document)

\* The callbacks callers pass to modify: an increment and a fresh document.
Callbacks == {"inc", "fresh"}
Apply(newEntityCallback, sourceEntity) ==
    IF newEntityCallback = "inc"
    THEN IF sourceEntity.t = "num" THEN Num((sourceEntity.v % MaxVal) + 1) ELSE Num(1)
    ELSE Obj("b" :> Num(1))

\* modify: fetch, the callback, set, and the fetch of the root (768-777).
\* The result goes with the value the callback was called with.
ModifyFetch(w, keyContext, sourceEntity) ==
    [r |-> IF w.err THEN w
           ELSE After(Fetch(w.s, keyContext, <<>>, TRUE, cfg.unsafeAssumeCache,
                            cfg.defaults), w.refused),
     sourceEntity |-> sourceEntity]
\* (a modify that calls the callback with the value in the store at the time of its set)
ModifySetFresh(old, keyContext, path, newEntityCallback) ==
    ModifyFetch(After(Set(old.s, keyContext, path,
                          Apply(newEntityCallback,
                                PathGet(Parse(old.s.store[keyContext]), path)),
                          cfg.insertionCache, cfg.defaults), old.refused),
                keyContext, old.ret)
ModifySet(old, keyContext, path, newEntityCallback) ==
    ModifyFetch(After(Set(old.s, keyContext, path, Apply(newEntityCallback, old.ret),
                          cfg.insertionCache, cfg.defaults), old.refused),
                keyContext, old.ret)
Modify(s, keyContext, path, newEntityCallback) ==
    ModifySet(Fetch(s, keyContext, path, TRUE, cfg.unsafeAssumeCache, cfg.defaults),
              keyContext, path, newEntityCallback)

\* push: fetch of the array, the push into it, set (652-658).  The push is
\* in place: it changes the array fetch returned, which may be an array of
\* the cache or of the schema's model, and set is given that same array.
PushedInPlace(src, keyContext, path, values) ==
    IF src.share = "model"
    THEN [src.s EXCEPT !.model = PathPut(src.s.model, path, Arr(src.ret.e \o values))]
    ELSE IF src.share = "cache"
         THEN [src.s EXCEPT !.mem =
                  MemSet(src.s.mem, keyContext,
                         PathPut(MemGet(src.s.mem, keyContext), path,
                                 Arr(src.ret.e \o values)))]
         ELSE src.s
SourceArray(src, path, values) ==
    IF src.share = "model" THEN ModelPart(path) ELSE Arr(src.ret.e \o values)
PushSet(src, keyContext, path, values) ==
    IF src.ret.t # "arr"
    THEN Thrown(src.s, src.refused)
    ELSE After(Returning(Set(PushedInPlace(src, keyContext, path, values), keyContext,
                             path, SourceArray(src, path, values),
                             cfg.insertionCache, cfg.defaults),
                         Num(Len(src.ret.e) + Len(values))),
               src.refused)
Push(s, keyContext, path, values) ==
    PushSet(Fetch(s, keyContext, path, TRUE, cfg.unsafeAssumeCache, cfg.defaults),
            keyContext, path, values)


(***************************************************************************)
(* The Connection as a state machine                                       *)
(***************************************************************************)
State == [store |-> store, mem |-> memoryStore, model |-> model]

\* Connection.constructor's defaults (260-279).
DefaultConfiguration ==
    [insertionCache |-> TRUE, utilityCache |-> TRUE, unsafeAssumeCache |-> FALSE,
     dataSchema |-> FALSE, defaults |-> FALSE,
     unbounded |-> TRUE, maxSize |-> 0, evictionAlgorithm |-> "refuse"]

\* The configurations a Connection is constructed with here.
Configurations ==
    {DefaultConfiguration,
     [DefaultConfiguration EXCEPT !.dataSchema = TRUE],
     [DefaultConfiguration EXCEPT !.dataSchema = TRUE, !.defaults = TRUE],
     [DefaultConfiguration EXCEPT !.unsafeAssumeCache = TRUE],
     [DefaultConfiguration EXCEPT !.unbounded = FALSE, !.maxSize = 1],
     [DefaultConfiguration EXCEPT !.unbounded = FALSE, !.maxSize = 1,
                                  !.evictionAlgorithm = "oldest"]}

\* The schema's default document at construction.
SchemaModel == Obj("a" :> Obj("b" :> Num(1)))

\* What callers pass to set: a path inside the document and a value.
Scalars == {Num(n) : n \in 1..MaxVal}
SetInputs ==
    {[path |-> <<>>, document |-> Obj("a" :> Num(1))],
     [path |-> <<>>, document |-> Num(1)],
     [path |-> <<"a">>, document |-> Num(MaxVal)]}
    \cup {[path |-> <<"a", "b">>, document |-> v] : v \in Scalars}
Paths == {<<>>, <<"a">>}

\* The database handle as the constructor leaves it (280-304): open, with no
\* transaction begun; no Transaction handed out, no maintenance timer.
Connected == [open |-> TRUE, inTransaction |-> FALSE]
Opened ==
    /\ API = Connected
    /\ transactions = <<>>
    /\ timer = "none"
    /\ connections = <<>>

Called0 == [op |-> "new", key |-> "", path |-> <<>>, arg |-> Undef, cache |-> FALSE,
            ret |-> Undef, share |-> "none", err |-> FALSE, refused |-> FALSE]

Init ==
    /\ cfg \in Configurations
    /\ store = [k \in Keys |-> Absent]
    /\ memoryStore = <<>>
    /\ model = SchemaModel
    /\ last = Called0
    /\ Opened
    /\ selection = Undef
    /\ secondarySelection = Undef

Writes(s) ==
    /\ store' = s.store
    /\ memoryStore' = s.mem
    /\ model' = s.model
Becomes(s) ==
    /\ Writes(s)
    /\ UNCHANGED <<cfg, selection, secondarySelection, API, transactions, timer,
                   connections>>

\* A call whose result no property looks at is recorded by its name alone.
Quiet(r) == Result(r.s, Undef, "none", FALSE)

Returns(op, key, path, arg, cache, r) ==
    last' = [op |-> op, key |-> key, path |-> path, arg |-> arg, cache |-> cache,
             ret |-> r.ret, share |-> r.share, err |-> r.err, refused |-> r.refused]

DoSet ==
    \E k \in Keys, in \in SetInputs, cache \in BOOLEAN, defaults \in BOOLEAN :
        \E r \in {Set(State, k, in.path, in.document, cache, defaults)} :
            /\ Becomes(r.s)
            /\ Returns("set", k, in.path, in.document, cache, r)

\* The option combinations of fetch: with assumeCache the other two are not read.
FetchOptions ==
    {[cache |-> c, assumeCache |-> FALSE, defaults |-> d] : c, d \in BOOLEAN}
    \cup {[cache |-> TRUE, assumeCache |-> TRUE, defaults |-> FALSE]}

DoFetch ==
    \E k \in Keys, path \in Paths, o \in FetchOptions :
        \E r \in {Fetch(State, k, path, o.cache, o.assumeCache, o.defaults)} :
            /\ Becomes(r.s)
            /\ Returns("fetch", k, path, Undef, FALSE, r)

DoExists ==
    \E k \in Keys, path \in Paths, cache \in BOOLEAN :
        \E r \in {Quiet(Exists(State, k, path, cache))} :
            /\ Becomes(r.s)
            /\ Returns("exists", "", <<>>, Undef, FALSE, r)

DoFind ==
    \E predicate \in Predicates, cache \in BOOLEAN :
        \E r \in {Find(State, predicate, cache)} :
            /\ Becomes(r.s)
            /\ Returns("find", "", <<>>, Undef, FALSE, r)

DoEach ==
    /\ Becomes(Each(State))
    /\ Returns("each", "", <<>>, Undef, FALSE, Result(State, Undef, "none", FALSE))

DoSelect ==
    \/ \E k \in Keys, path \in Paths :
        \E r \in {Quiet(SelectPath(State, k, path))} :
            /\ Becomes(r.s)
            /\ Returns("select", "", <<>>, Undef, FALSE, r)
    \/ \E predicate \in Predicates :
        /\ Becomes(SelectWhere(State, predicate))
        /\ Returns("select", "", <<>>, Undef, FALSE, Result(State, Undef, "none", FALSE))

\* The pathlikes callers name to evict and erase; the calls act on their root keys.
Pathlikes == {<<"k1">>, <<"k2", "a">>}
Roots(pathlikes) == {ResolveKeyPath(p).keyContext : p \in pathlikes}

DoEvict ==
    \E ps \in SUBSET Pathlikes :
        /\ Becomes(Evict(State, Roots(ps)))
        /\ Returns("evict", "", <<>>, ps, FALSE, Result(State, Undef, "none", FALSE))

DoErase ==
    \E ps \in SUBSET Pathlikes :
        /\ Becomes(Erase(State, Roots(ps)))
        /\ Returns("erase", "", <<>>, ps, FALSE, Result(State, Undef, "none", FALSE))

Next ==
    \/ DoSet
    \/ DoFetch
    \/ DoExists
    \/ DoFind
    \/ DoEach
    \/ DoSelect
    \/ DoEvict
    \/ DoErase

Spec == Init /\ [][Next]_vars


(***************************************************************************)
(* A cache strategy on its own: any sequence of patch calls, whatever the  *)
(* eviction algorithm does when it is called.                              *)
(***************************************************************************)
StrategyConfigurations ==
    {[DefaultConfiguration EXCEPT !.unbounded = FALSE, !.maxSize = n] : n \in 0..MaxSize}

PatchDocuments == {Obj("a" :> Num(n)) : n \in 1..MaxVal}

RECURSIVE SubMaps(_)
SubMaps(m) ==
    IF m = <<>> THEN {<<>>}
    ELSE LET rest == SubMaps(Tail(m))
         IN  rest \cup {<<Head(m)>> \o r : r \in rest}

\* What an eviction algorithm may do: it returns true only if it removed an entry.
Outcomes(m) ==
    {o \in [ok : BOOLEAN, mem : SubMaps(m)] : o.ok => Len(o.mem) < Len(m)}

InitStrategy ==
    /\ cfg \in StrategyConfigurations
    /\ store = [k \in Keys |-> Absent]
    /\ memoryStore = <<>>
    /\ model = SchemaModel
    /\ last = Called0
    /\ Opened
    /\ selection = Undef
    /\ secondarySelection = Undef

DoPatch ==
    \E k \in StrategyKeys, d \in PatchDocuments, o \in Outcomes(memoryStore) :
        /\ Becomes(RestrictedPatch(State, k, d, Strategy, o))
        /\ Returns("patch", k, <<>>, o.ok, Called(State, k, Strategy),
                   Result(State, Undef, "none", Refused(State, k, Strategy, o)))

NextStrategy == DoPatch

SpecStrategy == InitStrategy /\ [][NextStrategy]_vars

(***************************************************************************)
(* A caller that writes into the object a fetch returned to it.            *)
(***************************************************************************)
MutatedField(path) == IF path = <<>> THEN "a" ELSE "b"

MutateReturned ==
    /\ last.op = "fetch"
    /\ IsDataModel(last.ret)
    /\ LET at == last.path \o <<MutatedField(last.path)>>
           s == State
           entry == MemGet(s.mem, last.key)
       IN  /\ Becomes(IF last.share = "model"
                      THEN [s EXCEPT !.model = PathPut(s.model, at, Num(1))]
                      ELSE IF last.share = "cache"
                           THEN [s EXCEPT !.mem = MemSet(s.mem, last.key,
                                                         PathPut(entry, at, Num(1)))]
                           ELSE s)
           /\ last' = [last EXCEPT !.op = "mutate",
                                   !.ret = PathPut(last.ret, <<MutatedField(last.path)>>,
                                                   Num(1))]

CallerConfigurations ==
    {[DefaultConfiguration EXCEPT !.dataSchema = TRUE]}

InitCaller ==
    /\ Init
    /\ cfg \in CallerConfigurations

NextCaller ==
    \/ DoSet
    \/ DoFetch
    \/ MutateReturned

SpecCaller == InitCaller /\ [][NextCaller]_vars

(***************************************************************************)
(* Connections with a schema, in every configuration of defaults and       *)
(* utilityCache.                                                           *)
(***************************************************************************)
SchemaConfigurations ==
    {[DefaultConfiguration EXCEPT !.dataSchema = TRUE, !.defaults = d,
                                  !.utilityCache = u] : d, u \in BOOLEAN}

InitSchema ==
    /\ cfg \in SchemaConfigurations
    /\ store = [k \in Keys |-> Absent]
    /\ memoryStore = <<>>
    /\ model = SchemaModel
    /\ last = Called0
    /\ Opened
    /\ selection = Undef
    /\ secondarySelection = Undef

\* The partial documents callers pass to default.
Partials == {Obj(Empty), Obj("c" :> Num(1))}

DoDefault ==
    \E k \in Keys, document \in Partials :
        \E r \in {Default(State, k, document)} :
            /\ Becomes(r.s)
            /\ Returns("default", k, <<>>, document, FALSE, r)

DoEnsure ==
    \E k \in Keys, in \in SetInputs :
        \E r \in {Ensure(State, k, in.path, in.document)} :
            /\ Becomes(r.s)
            /\ Returns("ensure", k, in.path, in.document, FALSE, r)

NextSchema ==
    \/ DoSet
    \/ DoDefault
    \/ DoEnsure

SpecSchema == InitSchema /\ [][NextSchema]_vars

(***************************************************************************)
(* Callers that set and modify, without a schema and with one whose        *)
(* defaults are on.                                                        *)
(***************************************************************************)
\* The paths callers name to modify.
ModifyPaths == {<<>>, <<"a">>, <<"a", "b">>}

DoModify ==
    \E k \in Keys, path \in ModifyPaths, fn \in Callbacks :
        \E m \in {Modify(State, k, path, fn)} :
            /\ Becomes(m.r.s)
            /\ Returns("modify", k, path, [fn |-> fn, old |-> m.sourceEntity], FALSE, m.r)

ModifyConfigurations ==
    {DefaultConfiguration,
     [DefaultConfiguration EXCEPT !.dataSchema = TRUE, !.defaults = TRUE]}

InitModify ==
    /\ Init
    /\ cfg \in ModifyConfigurations

NextModify ==
    \/ DoSet
    \/ DoModify

SpecModify == InitModify /\ [][NextModify]_vars

(***************************************************************************)
(* Callers that push to the array of a schema whose model is {items: []},  *)
(* with defaults on.                                                       *)
(***************************************************************************)
ItemsModel == Obj("items" :> Arr(<<>>))
ItemsPath == <<"items">>

PushConfigurations ==
    {[DefaultConfiguration EXCEPT !.dataSchema = TRUE, !.defaults = TRUE,
                                  !.utilityCache = u] : u \in BOOLEAN}

InitPush ==
    /\ cfg \in PushConfigurations
    /\ store = [k \in Keys |-> Absent]
    /\ memoryStore = <<>>
    /\ model = ItemsModel
    /\ last = Called0
    /\ Opened
    /\ selection = Undef
    /\ secondarySelection = Undef

\* A push of one value; the arrays are kept to MaxItems elements.
DoPush ==
    \E k \in Keys, x \in Scalars :
        \E r \in {Push(State, k, ItemsPath, <<x>>)} :
            /\ ~r.err => r.ret.v <= MaxItems
            /\ Becomes(r.s)
            /\ Returns("push", k, ItemsPath, x, FALSE, r)

NextPush ==
    \/ DoPush
    \/ DoErase

SpecPush == InitPush /\ [][NextPush]_vars

(***************************************************************************)
(* The Selection as a state machine: a caller holds two Selections, built  *)
(* from objects of its own, and limits and joins the first.                *)
(***************************************************************************)
Roles == "Roles"
EntitiesOf(keys, documents) ==
    UNION {{Obj(f) : f \in [ks -> documents]} : ks \in SUBSET keys}
ThisEntities == EntitiesOf({"a", "b", "c"}, {Num(0), Obj(Empty)})
OtherEntities ==
    EntitiesOf({"a", "c"}, {Obj(Empty), Obj("b" :> Str("b")), Obj("b" :> Str("items"))})

InitSelection ==
    /\ cfg = DefaultConfiguration
    /\ store = [k \in Keys |-> Absent]
    /\ memoryStore = <<>>
    /\ model = SchemaModel
    /\ last = Called0
    /\ Opened
    /\ selection \in {Selection(entities, Table) : entities \in ThisEntities}
    /\ secondarySelection \in {Selection(entities, Roles) : entities \in OtherEntities}

Offsets == {Num(n) : n \in 0..MaxItems}
Amounts == {Undef} \cup Offsets

DoLimit ==
    /\ selection # Undef
    /\ \E extractionStartOffset \in Offsets, amount \in Amounts :
        /\ selection' = Limit(selection, extractionStartOffset, amount)
        /\ last' = [Called0 EXCEPT !.op = "limit",
                       !.arg = [extractionStartOffset |-> extractionStartOffset,
                                amount |-> amount]]
        /\ UNCHANGED <<store, memoryStore, model, cfg, secondarySelection, API, transactions,
                       timer, connections>>

\* The fields callers join by; the empty path is no field.
JoinFields == {<<>>, <<"b">>}

DoJoin ==
    /\ selection # Undef
    /\ \E field \in JoinFields :
        \E j \in {Join(selection, secondarySelection,
                       Property(secondarySelection.holds), field)} :
            /\ selection' = [selection EXCEPT !.cache = j.cache]
            /\ last' = [Called0 EXCEPT !.op = "join",
                           !.arg = [field |-> field, calls |-> j.calls]]
            /\ Writes(JoinedInPlace(State, selection.shares, j.cache))
            /\ UNCHANGED <<cfg, secondarySelection, API, transactions, timer, connections>>

NextSelection ==
    \/ DoLimit
    \/ DoJoin

SpecSelection == InitSelection /\ [][NextSelection]_vars

(***************************************************************************)
(* A caller that groups a Selection built from an object of its own.  A    *)
(* Selection is grouped while its keys are its first ones.                 *)
(***************************************************************************)
GroupKeys == {"a", "b", "c"}
GroupDocuments == {Obj(Empty)} \cup {Obj("b" :> Obj("c" :> Str(x))) : x \in {"x", "y"}}
GroupPathlikes == {<<"b">>, <<"b", "c">>}

InitGroup ==
    /\ cfg = DefaultConfiguration
    /\ store = [k \in Keys |-> Absent]
    /\ memoryStore = <<>>
    /\ model = SchemaModel
    /\ last = Called0
    /\ Opened
    /\ selection \in {Selection(entities, Table) :
                         entities \in EntitiesOf(GroupKeys, GroupDocuments)}
    /\ secondarySelection = Undef

DoGroup ==
    /\ MemKeys(selection.cache) \subseteq GroupKeys
    /\ \E pathlike \in GroupPathlikes :
        \E g \in {Group(selection, pathlike)} :
            /\ selection' = [selection EXCEPT !.cache = g.cache]
            /\ last' = [Called0 EXCEPT !.op = "group", !.path = pathlike, !.err = g.err]
            /\ UNCHANGED <<store, memoryStore, model, cfg, secondarySelection, API,
                           transactions, timer, connections>>

NextGroup ==
    \/ DoGroup
    \/ DoLimit

SpecGroup == InitGroup /\ [][NextGroup]_vars

(***************************************************************************)
(* A caller that limits a Selection with amounts of either sign.           *)
(***************************************************************************)
SignedAmounts == {Undef} \cup {Num(n) : n \in (0 - MaxItems)..MaxItems}

DoLimitSigned ==
    \E extractionStartOffset \in Offsets, amount \in SignedAmounts :
        /\ selection' = Limit(selection, extractionStartOffset, amount)
        /\ last' = [Called0 EXCEPT !.op = "limit",
                       !.arg = [extractionStartOffset |-> extractionStartOffset,
                                amount |-> amount]]
        /\ UNCHANGED <<store, memoryStore, model, cfg, secondarySelection, API, transactions,
                       timer, connections>>

SpecLimit == InitGroup /\ [][DoLimitSigned]_vars

(***************************************************************************)
(* The Connection's lifetime: transactions, the strategy's maintenance     *)
(* timer and disconnect.  db is the database handle with the rows and the  *)
(* open Transactions; a Transaction remembers the rows it began with.      *)
(***************************************************************************)
Database == [API |-> API, transactions |-> transactions, store |-> store]

\* new Transaction(connection): begins a transaction on the database handle.
Begun(db) ==
    [db EXCEPT !.API.inTransaction = TRUE,
               !.transactions = Append(@, [began |-> db.store])]
\* (a transaction() that hands out a Transaction whatever the handle's state)
TransactionNested(db) == Begun(db)
\* transaction (398-402).
Transaction(db) == IF db.API.inTransaction THEN db ELSE Begun(db)
Without(handles, i) == SubSeq(handles, 1, i - 1) \o SubSeq(handles, i + 1, Len(handles))
Commit(db, i) ==
    [db EXCEPT !.API.inTransaction = FALSE, !.transactions = Without(@, i)]
Rollback(db, i) ==
    [db EXCEPT !.API.inTransaction = FALSE, !.transactions = Without(@, i),
               !.store = db.transactions[i].began]

\* disconnect (410-417): close, which rolls an open transaction back, clear
\* the cache map, clear the timer if there is one.
Closed(db) ==
    [API |-> [open |-> FALSE, inTransaction |-> FALSE], transactions |-> <<>>,
     store |-> IF db.API.inTransaction /\ db.transactions # <<>>
               THEN db.transactions[1].began ELSE db.store]
\* (a disconnect that leaves the timer running)
DisconnectLeaking(running) == running
Disconnect(running) == IF running = "running" THEN "cleared" ELSE running

LifecycleTimers == {"none", "running"}

InitLifecycle ==
    /\ cfg = DefaultConfiguration
    /\ store = [k \in Keys |-> Absent]
    /\ memoryStore = <<>>
    /\ model = SchemaModel
    /\ last = Called0
    /\ selection = Undef
    /\ secondarySelection = Undef
    /\ API = Connected
    /\ transactions = <<>>
    /\ timer \in LifecycleTimers
    /\ connections = <<>>

Moves(db) ==
    /\ API' = db.API
    /\ transactions' = db.transactions
    /\ store' = db.store
    /\ UNCHANGED <<model, cfg, selection, secondarySelection, connections>>

DoTransaction ==
    /\ API.open
    /\ \E db \in {Transaction(Database)} :
        /\ Moves(db)
        /\ last' = [Called0 EXCEPT !.op = "transaction",
                       !.ret = IF Len(db.transactions) > Len(transactions)
                               THEN Num(Len(db.transactions)) ELSE Undef]
        /\ UNCHANGED <<memoryStore, timer>>

DoCommit ==
    /\ API.open
    /\ \E i \in 1..Len(transactions) :
        /\ Moves(Commit(Database, i))
        /\ last' = [Called0 EXCEPT !.op = "commit"]
        /\ UNCHANGED <<memoryStore, timer>>

DoRollback ==
    /\ API.open
    /\ \E i \in 1..Len(transactions) :
        /\ Moves(Rollback(Database, i))
        /\ last' = [Called0 EXCEPT !.op = "rollback"]
        /\ UNCHANGED <<memoryStore, timer>>

\* The strategy's maintenance task, run by its timer: it drops entries.
DoMaintain ==
    /\ timer = "running"
    /\ \E m \in SubMaps(memoryStore) :
        /\ memoryStore' = m
        /\ last' = [Called0 EXCEPT !.op = "maintain"]
        /\ UNCHANGED <<store, model, cfg, selection, secondarySelection, API,
                       transactions, timer, connections>>

DoDisconnect ==
    /\ API.open
    /\ Moves(Closed(Database))
    /\ memoryStore' = <<>>
    /\ timer' = Disconnect(timer)
    /\ last' = [Called0 EXCEPT !.op = "disconnect", !.arg = Num(Len(memoryStore))]
    /\ UNCHANGED connections

NextLifecycle ==
    \/ API.open /\ DoSet
    \/ DoTransaction
    \/ DoCommit
    \/ DoRollback
    \/ DoMaintain
    \/ DoDisconnect

SpecLifecycle == InitLifecycle /\ [][NextLifecycle]_vars

(***************************************************************************)
(* Two Connections on one backing store, each with a cache map and a       *)
(* schema model of its own.  Each call of a Connection runs to its end;    *)
(* the calls of the two interleave, and so do the fetch and the set that   *)
(* a modify makes.                                                         *)
(***************************************************************************)
Workers == {"A", "B"}
StateOf(c) ==
    [store |-> store, mem |-> connections[c].mem, model |-> connections[c].model]
Constructed ==
    [mem |-> <<>>, model |-> SchemaModel, pc |-> "idle", sourceEntity |-> Undef,
     before |-> 0, order |-> 0]
NoRows == [store |-> [k \in Keys |-> Absent], mem |-> <<>>, model |-> SchemaModel]
\* The table as an earlier set('k1', {a: 0}) left it.
Counted == Set(NoRows, "k1", <<>>, Obj("a" :> Num(0)), FALSE, FALSE).s.store
CounterPath == <<"a">>

InitRace ==
    /\ cfg = DefaultConfiguration
    /\ store = Counted
    /\ memoryStore = <<>>
    /\ model = SchemaModel
    /\ last = Called0
    /\ selection = Undef
    /\ secondarySelection = Undef
    /\ API = Connected
    /\ transactions = <<>>
    /\ timer = "none"
    /\ connections = [c \in Workers |-> Constructed]

\* before counts the sets made when the Connection's modify fetched, order the
\* sets made when its own set was.
Ran(c, s, pc, sourceEntity, before, order) ==
    /\ store' = s.store
    /\ connections' = [connections EXCEPT ![c] =
                          [mem |-> s.mem, model |-> s.model, pc |-> pc,
                           sourceEntity |-> sourceEntity, before |-> before,
                           order |-> order]]
    /\ UNCHANGED <<memoryStore, model, cfg, selection, secondarySelection, API,
                   transactions, timer>>
Sets == Cardinality({c \in Workers : connections[c].order > 0})

DoFetchBy ==
    \E c \in Workers, k \in Keys, cache \in BOOLEAN :
        \E r \in {Fetch(StateOf(c), k, <<>>, cache, cfg.unsafeAssumeCache, cfg.defaults)} :
            /\ Ran(c, r.s, connections[c].pc, connections[c].sourceEntity,
                   connections[c].before, connections[c].order)
            /\ Returns("fetch", k, <<>>, c, cache, r)

\* modify, up to its fetch (769).
DoModifyFetch ==
    \E c \in Workers :
        /\ connections[c].pc = "idle"
        /\ \E r \in {Fetch(StateOf(c), "k1", CounterPath, TRUE, cfg.unsafeAssumeCache,
                            cfg.defaults)} :
            /\ Ran(c, r.s, "fetched", r.ret, Sets, 0)
            /\ Returns("modify fetch", "k1", CounterPath, c, TRUE, r)

\* modify, from the callback on (771-776).
DoModifySet ==
    \E c \in Workers :
        /\ connections[c].pc = "fetched"
        /\ \E m \in {ModifySet(Result(StateOf(c), connections[c].sourceEntity, "none",
                                      FALSE), "k1", CounterPath, "inc")} :
            /\ Ran(c, m.r.s, "done", connections[c].sourceEntity, connections[c].before,
                   Sets + 1)
            /\ Returns("modify", "k1", CounterPath, c, FALSE, m.r)

NextRace ==
    \/ DoFetchBy
    \/ DoModifyFetch
    \/ DoModifySet

SpecRace == InitRace /\ [][NextRace]_vars

(***************************************************************************)
(* Connection A and Connection B write and read one key.  B's set is the   *)
(* last write to it: a Connection sets only while B has not.  A goes on    *)
(* fetching the key.                                                       *)
(***************************************************************************)
InitShared ==
    /\ cfg = DefaultConfiguration
    /\ store = NoRows.store
    /\ memoryStore = <<>>
    /\ model = SchemaModel
    /\ last = Called0
    /\ selection = Undef
    /\ secondarySelection = Undef
    /\ API = Connected
    /\ transactions = <<>>
    /\ timer = "none"
    /\ connections = [c \in Workers |-> Constructed]

SharedDocuments == {Obj("a" :> n) : n \in Scalars}

DoSetBy ==
    \E c \in Workers, document \in SharedDocuments, cache \in BOOLEAN :
        /\ connections["B"].pc = "idle"
        /\ \E r \in {Set(StateOf(c), "k1", <<>>, document, cache, cfg.defaults)} :
            /\ Ran(c, r.s, IF c = "B" THEN "done" ELSE "idle", Undef, 0, 0)
            /\ Returns("set", "k1", <<>>, document, cache, r)

NextShared ==
    \/ DoFetchBy
    \/ DoSetBy

SpecShared ==
    /\ InitShared
    /\ [][NextShared]_vars
    /\ WF_vars(DoFetchBy /\ last'.arg = "A" /\ last'.key = "k1")

(***************************************************************************)
(* A caller that keeps the Selection select returns and joins a Selection  *)
(* of its own into it.  The Connection's writes come before the select.    *)
(***************************************************************************)
InitSelected ==
    /\ cfg \in Configurations
    /\ store = [k \in Keys |-> Absent]
    /\ memoryStore = <<>>
    /\ model = SchemaModel
    /\ last = Called0
    /\ Opened
    /\ selection = Undef
    /\ secondarySelection = Selection(Obj("a" :> Obj(Empty)), Roles)

DoSelectHeld ==
    \/ \E k \in Keys, path \in Paths :
        \E r \in {SelectPath(State, k, path)} :
            /\ Writes(r.s)
            /\ selection' = SelectedOf(r, k, path)
            /\ Returns("select", k, path, Undef, FALSE, Quiet(r))
            /\ UNCHANGED <<cfg, secondarySelection, API, transactions, timer, connections>>
    \/ \E predicate \in Predicates :
        /\ Writes(SelectWhere(State, predicate))
        /\ selection' = SelectedWhere(State, predicate)
        /\ Returns("select", "", <<>>, predicate, FALSE,
                   Result(State, Undef, "none", FALSE))
        /\ UNCHANGED <<cfg, secondarySelection, API, transactions, timer, connections>>

NextSelected ==
    \/ selection = Undef /\ DoSet
    \/ DoSelectHeld
    \/ DoLimit
    \/ DoJoin

SpecSelected == InitSelected /\ [][NextSelected]_vars


(***************************************************************************)
(* Properties                                                              *)
(***************************************************************************)
StateAfter == [store |-> store', mem |-> memoryStore', model |-> model']

\* What the cache map holds: each key with the tree of its entry.
CacheView(s) == [i \in 1..Len(s.mem) |->
                    [key |-> s.mem[i].key, doc |-> Deref(s.mem[i].doc, s)]]

\* C1: with a finite maxSize N and an eviction algorithm that returns true
\* only after removing an entry, the map holds at most N entries after every
\* patch of any sequence of patch calls from the empty map.
BoundedCache == Len(memoryStore) <= cfg.maxSize

\* A patch of a new key into a full map that the algorithm made room for.
BoundedCacheWitness ==
    /\ last.op = "patch"
    /\ last.cache
    /\ last.arg
    /\ cfg.maxSize > 0
    /\ Len(memoryStore) = cfg.maxSize
    /\ MemHas(memoryStore, last.key)

\* C2: every key resident in the cache map has a row in the backing store,
\* and its cached document without the timestamp equals the stored document.
CacheMirrorsStore ==
    \A i \in 1..Len(memoryStore) :
        LET e == memoryStore[i]
        IN  /\ store[e.key] # Absent
            /\ DeleteTimestamp(Deref(e.doc, State)) = Parse(store[e.key])

\* C3: after a set with the cache flag on, fetch with assumeCache returns what
\* a fetch with caching off returns.
CacheAgreement ==
    (last.op = "set" /\ ~last.err /\ last.cache) =>
        Fetch(State, last.key, last.path, TRUE, TRUE, FALSE).ret
            = Fetch(State, last.key, last.path, FALSE, FALSE, cfg.defaults).ret

\* C4: a set that returns normally has written the root document to the row
\* of its root key and to no other row, whatever the cache flag; when the
\* strategy refused the admission the cache map is as it was.
WriteThrough ==
    [][(last'.op = "set" /\ ~last'.err) =>
        /\ store'[last'.key] # Absent
        /\ IF last'.path # <<>>
           THEN PathGet(Parse(store'[last'.key]), last'.path) = last'.arg
           ELSE \/ Parse(store'[last'.key]) = last'.arg
                \/ cfg.dataSchema /\ store[last'.key] = Absent
                                  /\ Parse(store'[last'.key]) = model
        /\ \A k \in Keys \ {last'.key} : store'[k] = store[k]
        /\ last'.refused => memoryStore' = memoryStore]_vars

\* A set whose admission the strategy refused: the row is there, the entry is not.
WriteThroughWitness ==
    /\ last.op = "set"
    /\ ~last.err
    /\ last.refused
    /\ ~last.cache
    /\ store[last.key] # Absent
    /\ ~MemHas(memoryStore, last.key)

\* C5: set(P, v) followed by fetch(P) returns v (a container when P is empty),
\* for every option combination of set (stated for the Connections whose
\* fetch reads the store).
RoundTrip ==
    (/\ last.op = "set"
     /\ ~last.err
     /\ ~cfg.unsafeAssumeCache
     /\ last.path = <<>> => IsDataModel(last.arg)) =>
        Fetch(State, last.key, last.path, TRUE, cfg.unsafeAssumeCache,
              cfg.defaults).ret = last.arg

\* C6: writing into a value fetch returned does not change what the cache holds.
ReturnedNotShared ==
    [][last'.op = "mutate" => CacheView(StateAfter) = CacheView(State)]_vars

\* C7: the schema's model stays as constructed, and neither a cache entry nor
\* a returned value is the model object.
ModelReadOnly ==
    /\ model = SchemaModel
    /\ \A i \in 1..Len(memoryStore) : memoryStore[i].doc # ModelRef
    /\ last.share # "model"

\* C8: fetch, exists, find, each and select leave every row of the backing
\* store as it was, a fetch miss that materializes a default included.
ReadOps == {"fetch", "exists", "find", "each", "select"}
ReadsKeepStore == [][last'.op \in ReadOps => store' = store]_vars

\* A fetch miss that returned (and cached) the default of a key with no row.
ReadsKeepStoreWitness ==
    /\ last.op = "fetch"
    /\ last.share = "model"
    /\ store[last.key] = Absent
    /\ MemHas(memoryStore, last.key)

\* C9: no root-level document returned by fetch or find has the timestamp.
NoTimestampReturned ==
    (last.op \in {"fetch", "find"} /\ last.path = <<>>) => ~HasTimestamp(last.ret)

\* C10: evict of named pathlikes removes their root keys from the cache map
\* and nothing else, evict of nothing empties the map, the backing store is
\* as it was, and evicting again changes nothing.
EvictsNamed ==
    [][last'.op = "evict" =>
        /\ store' = store
        /\ model' = model
        /\ MemKeys(memoryStore') = IF last'.arg = {} THEN {}
                                   ELSE MemKeys(memoryStore) \ Roots(last'.arg)
        /\ \A k \in MemKeys(memoryStore') :
               MemGet(memoryStore', k) = MemGet(memoryStore, k)
        /\ Evict(StateAfter, Roots(last'.arg)) = StateAfter]_vars

\* An evict of one key, given by a nested pathlike, that left the other
\* entry in the map and the row of the evicted key in the store.
EvictsNamedWitness ==
    /\ last.op = "evict"
    /\ last.arg = {<<"k2", "a">>}
    /\ MemKeys(memoryStore) = {"k1"}
    /\ store["k2"] # Absent

\* C11: erase of named pathlikes leaves none of their root keys in the cache
\* map or in the backing store and every other key as it was in both; erase
\* of nothing changes neither the store nor the cache map.
ErasesNamed ==
    [][last'.op = "erase" =>
        /\ model' = model
        /\ IF last'.arg = {}
           THEN store' = store /\ memoryStore' = memoryStore
           ELSE /\ \A k \in Roots(last'.arg) :
                      store'[k] = Absent /\ ~MemHas(memoryStore', k)
                /\ \A k \in Keys \ Roots(last'.arg) :
                      /\ store'[k] = store[k]
                      /\ MemHas(memoryStore', k) = MemHas(memoryStore, k)
                      /\ MemGet(memoryStore', k) = MemGet(memoryStore, k)]_vars

\* An erase of one key that left the other key's row and cache entry.
ErasesNamedWitness ==
    /\ last.op = "erase"
    /\ last.arg = {<<"k1">>}
    /\ store["k1"] = Absent
    /\ store["k2"] # Absent
    /\ MemHas(memoryStore, "k2")

\* C12: in every state a set of a nested path with defaults on, for a key
\* with no row, stores a copy of the schema's model with the value written at
\* the path.
NestedInputs == {in \in SetInputs : in.path # <<>>}
SetMaterializes ==
    \A k \in Keys, in \in NestedInputs, cache \in BOOLEAN :
        (store[k] = Absent /\ ~Set(State, k, in.path, in.document, cache, TRUE).err) =>
            Parse(Set(State, k, in.path, in.document, cache, TRUE).s.store[k])
                = PathPut(model, in.path, in.document)

\* C13: default and ensure write to the backing store exactly when the key
\* (the path) is absent from the store: then the row holds the schema's
\* instance of the partial (the document at the path); otherwise the store is
\* as it was.
MaterializesIfAbsent ==
    [][/\ last'.op = "default" =>
            IF store[last'.key] = Absent
            THEN /\ store'[last'.key] # Absent
                 /\ Parse(store'[last'.key]) = Instance(last'.arg, State)
            ELSE store' = store
       /\ (last'.op = "ensure" /\ ~last'.err) =>
            IF \/ store[last'.key] = Absent
               \/ PathGet(Parse(store[last'.key]), last'.path) = Undef
            THEN /\ store'[last'.key] # Absent
                 /\ PathGet(Parse(store'[last'.key]), last'.path) = last'.arg
            ELSE store' = store]_vars

\* C14: a set at the root with a value that is not a container throws and
\* leaves the backing store as it was, whatever its options, and every row of
\* the store holds a container.
RootScalarFails ==
    [][/\ (last'.op = "set" /\ last'.path = <<>> /\ ~IsDataModel(last'.arg)) =>
            (last'.err /\ store' = store)
       /\ \A k \in Keys : store'[k] # Absent => IsDataModel(Parse(store'[k]))]_vars

\* C15: for a path that holds a value in the backing store, modify calls the
\* callback with that value, a fetch of the path then returns the callback's
\* result, and modify returns what a fetch of the root key then returns.
Held(k, path) ==
    IF path = <<>> THEN DeleteTimestamp(Parse(store[k]))
    ELSE PathGet(Parse(store[k]), path)
PushOnDefault ==
    [][(last'.op = "push" /\ store[last'.key] = Absent) =>
            /\ ~last'.err
            /\ last'.ret = Num(1)
            /\ Fetch(StateAfter, last'.key, ItemsPath, TRUE, cfg.unsafeAssumeCache,
                     cfg.defaults).ret = Arr(<<last'.arg>>)]_vars

\* The cached documents and the rows that satisfy a predicate, by position.
CachedMatches(predicate) ==
    {i \in 1..Len(memoryStore) :
        Satisfies(predicate, Deref(memoryStore[i].doc, State), memoryStore[i].key)}
RowMatches(predicate) ==
    {i \in 1..Len(Rows(State)) :
        Satisfies(predicate, Parse(store[Rows(State)[i]]), Rows(State)[i])}
Least(S) == CHOOSE i \in S : \A j \in S : i <= j
UpToMatch(predicate) ==
    IF RowMatches(predicate) = {} THEN Rows(State)
    ELSE SubSeq(Rows(State), 1, Least(RowMatches(predicate)))

\* What find returns: with the cache flag and a cached document that
\* satisfies the predicate, a copy of the first such cached document;
\* otherwise the first row in storage order that satisfies it, or nothing;
\* and the Connection is as it was.
FindReturnsFirst(predicate, cache) ==
    /\ Find(State, predicate, cache).s = State
    /\ Find(State, predicate, cache).ret =
          IF cache /\ CachedMatches(predicate) # {}
          THEN Deref(memoryStore[Least(CachedMatches(predicate))].doc, State)
          ELSE IF RowMatches(predicate) # {}
               THEN Parse(store[Rows(State)[Least(RowMatches(predicate))]])
               ELSE Undef
FromStore(predicate, cache) == ~(cache /\ CachedMatches(predicate) # {})

\* C17: find returns the first cached match (with the cache flag) or else the
\* first matching row, changes nothing, and reads no row of the store after
\* the row it returns.
FindStopsReading ==
    \A predicate \in Predicates, cache \in BOOLEAN :
        /\ FindReturnsFirst(predicate, cache)
        /\ FromStore(predicate, cache) =>
              RowsRead(State, predicate, cache) = UpToMatch(predicate)

\* C17, amended: find returns the first cached match (with the cache flag) or
\* else the first matching row and changes nothing; its list statement reads
\* every row of the store, and no row after the one it returns is decoded.
FindStopsDecoding ==
    \A predicate \in Predicates, cache \in BOOLEAN :
        /\ FindReturnsFirst(predicate, cache)
        /\ FromStore(predicate, cache) =>
              /\ RowsRead(State, predicate, cache) = Rows(State)
              /\ RowsDecoded(State, predicate, cache) = UpToMatch(predicate)

\* A find that returned the first of two rows, with nothing in the cache.
FindStopsDecodingWitness ==
    /\ last.op = "find"
    /\ memoryStore = <<>>
    /\ store["k1"] # Absent
    /\ store["k2"] # Absent
    /\ last.ret = Parse(store["k1"])

\* C18  select(predicate) returns a Selection whose working set is exactly the
\* rows of the store that satisfy the predicate, each under its own key, and
\* select(pathlike) of a stored document returns a Selection of exactly one
\* entry, the fetched document.
Entries(held) == {held.cache[i] : i \in 1..Len(held.cache)}
RowsWhere(predicate) ==
    {[key |-> k, doc |-> Parse(store[k])] :
        k \in {x \in Keys : IsRow(State, x) /\ Satisfies(predicate, Parse(store[x]), x)}}
SelectsOne(r) ==
    r.ret # Undef =>
        /\ Len(SelectedPath(r).cache) = 1
        /\ SelectedPath(r).cache[1].doc = Deref(r.ret, r.s)
SelectsRows ==
    /\ \A predicate \in Predicates :
        Entries(SelectedWhere(State, predicate)) = RowsWhere(predicate)
    /\ \A k \in Keys, path \in Paths :
        IsRow(State, k) => SelectsOne(SelectPath(State, k, path))

\* C19  limit(offset, amount) leaves in the working set exactly the entries
\* whose position in iteration order is in [offset, offset + amount), in their
\* order, and limit(amount) leaves exactly the first amount entries.
Window(cache, offset, amount) ==
    SubSeq(cache, offset + 1, IF offset + amount < Len(cache) THEN offset + amount
                              ELSE Len(cache))
Limited(cache, arg) ==
    IF arg.amount = Undef THEN Window(cache, 0, arg.extractionStartOffset.v)
    ELSE Window(cache, arg.extractionStartOffset.v, arg.amount.v)
LimitKeepsWindow ==
    [][last'.op = "limit" => selection'.cache = Limited(selection.cache, last'.arg)]_vars

\* C20  join(other, strategy, field) calls the merge strategy only for entries
\* of other whose join key (their own key, or the value at field) is a key of
\* this Selection; it adds no key to this Selection and removes none, leaves
\* every document of this Selection that no entry of other matches as it was,
\* and leaves other as it was.
KeysOf(held) == [i \in 1..Len(held.cache) |-> held.cache[i].key]
JoinKey(entry, field) ==
    IF field = <<>> THEN Str(entry.key) ELSE PathGet(entry.doc, field)
Matches(entry, field, held) ==
    \E k \in MemKeys(held.cache) : JoinKey(entry, field) = Str(k)
Matched(k, field) ==
    \E entry \in Entries(secondarySelection) : JoinKey(entry, field) = Str(k)
CallsOnlyMatches(arg) ==
    \A i \in 1..Len(arg.calls) :
        \E entry \in Entries(secondarySelection) :
            /\ entry.key = arg.calls[i].index
            /\ JoinKey(entry, arg.field) = arg.calls[i].fieldId
            /\ Matches(entry, arg.field, selection)
SelectionOps == {"limit", "join"}
SelectionKeepsConnection ==
    [][last'.op \in SelectionOps =>
        /\ store' = store
        /\ CacheView(StateAfter) = CacheView(State)
        /\ model' = model]_vars

\* C22  at most one transaction is open per Connection at any time:
\* transaction() returns a handle only when the backing store has no open
\* transaction, and a call made while a handle is still open returns nothing.
OneTransaction ==
    [][/\ Len(transactions') <= 1
       /\ last'.op = "transaction" =>
            /\ last'.ret # Undef <=> ~API.inTransaction
            /\ transactions # <<>> => last'.ret = Undef /\ transactions' = transactions]_vars
OneTransactionWitness ==
    /\ last.op = "transaction"
    /\ last.ret = Undef
    /\ Len(transactions) = 1

\* C23  after disconnect() returns the backing-store handle is closed, the
\* cache map is empty and a running maintenance timer is cleared; the
\* maintenance task runs at no later time.
DisconnectCloses ==
    [][/\ last'.op = "disconnect" =>
            /\ ~API'.open
            /\ memoryStore' = <<>>
            /\ timer' # "running"
       /\ ~API.open => last'.op # "maintain" /\ timer' # "running"]_vars
DisconnectClosesWitness ==
    /\ last.op = "disconnect"
    /\ last.arg.v >= 1
    /\ timer = "cleared"

\* C24  two Connections on one backing store that each run
\* modify(k1.a, x => x + 1): whatever the interleaving of their fetches and
\* sets, the value stored in the end is the one the last set wrote, the value
\* that Connection's fetch saw plus 1; in some interleaving that is the old
\* value plus 1, one update lost.
BothDone == \A c \in Workers : connections[c].pc = "done"
LastSet == CHOOSE c \in Workers : connections[c].order = Cardinality(Workers)
Stored == PathGet(Parse(store["k1"]), CounterPath)
LastWriteWins ==
    (connections # <<>> /\ BothDone) =>
        Stored = Num(connections[LastSet].sourceEntity.v + 1)
LostUpdate ==
    /\ connections # <<>>
    /\ BothDone
    /\ \A c \in Workers : connections[c].before = 0
    /\ Stored = Num(1)

\* C25  Connections A and B on one backing store, each with its own cache:
\* once B's set(k1, v) has completed and no write to k1 follows, a fetch(k1)
\* of A eventually returns a value deep-equal to v, whatever A had cached.
Settled == connections # <<>> /\ connections["B"].pc = "done"
SeenByA ==
    /\ last.op = "fetch"
    /\ last.key = "k1"
    /\ last.arg = "A"
    /\ IsRow(State, "k1")
    /\ last.ret = DeleteTimestamp(Parse(store["k1"]))
EventuallySeen == Settled ~> SeenByA

\* C26  for a key with a row in the backing store, set of a nested path
\* changes only the value at the path: every other field of the stored
\* document, and of the cached document if there is one, is after the call
\* what it was before, in every configuration, unsafeAssumeCache with the
\* key not in the cache map included.  (The cache's _timestamp is left out
\* of the comparison.)
FrameInputs == NestedInputs \cup {[path |-> <<"c">>, document |-> Num(1)]}
Framed(before, after, in) ==
    PathPut(before, in.path, in.document) # Fail =>
        DeleteTimestamp(after) = DeleteTimestamp(PathPut(before, in.path, in.document))
SetFrames(r, k, in) ==
    ~r.err =>
        /\ Framed(Parse(store[k]), Parse(r.s.store[k]), in)
        /\ (MemHas(memoryStore, k) /\ MemHas(r.s.mem, k)) =>
                Framed(Deref(MemGet(memoryStore, k), State),
                       Deref(MemGet(r.s.mem, k), r.s), in)
SetKeepsOthers ==
    \A k \in Keys, in \in FrameInputs, cache \in BOOLEAN :
        IsRow(State, k) =>
            SetFrames(Set(State, k, in.path, in.document, cache, cfg.defaults), k, in)

\* C27  group(pathlike) partitions the working set: afterwards its keys are
\* exactly the distinct values found at pathlike in the original documents,
\* and each original entry is in exactly one group, the group of its value at
\* pathlike, under its original index; no original entry is lost or doubled.
GroupOf(entry, pathlike) == KeyOf(PathGet(entry.doc, pathlike))
Holds(group, entry) ==
    /\ group.doc.t = "obj"
    /\ entry.key \in DOMAIN group.doc.f
    /\ group.doc.f[entry.key] = entry.doc
GroupPartitions ==
    [][last'.op = "group" =>
        /\ MemKeys(selection'.cache)
              = {GroupOf(entry, last'.path) : entry \in Entries(selection)}
        /\ \A entry \in Entries(selection) :
            {group \in Entries(selection') : Holds(group, entry)}
              = {group \in Entries(selection') :
                    group.key = GroupOf(entry, last'.path)}
        /\ \A entry \in Entries(selection) :
            \E group \in Entries(selection') : Holds(group, entry)]_vars

\* C28  In limit the exclusion test (offset > pointer and pointer >= offset +
\* amount) is false at every pointer position for every offset >= 0 and every
\* amount, so limit removes no entry whatever its arguments and whatever the
\* size of the working set.
TestFalse(cache, arg) ==
    \A pointer \in 0..(Len(cache) - 1) :
        ~Deleted(pointer, Offset(arg.extractionStartOffset, arg.amount),
                 Amount(arg.extractionStartOffset, arg.amount))
LimitRemovesNothing ==
    [][last'.op = "limit" =>
        /\ TestFalse(selection.cache, last'.arg)
        /\ selection'.cache = selection.cache]_vars

\* C28, amended: the test is false at every pointer position, and limit
\* removes no entry, for every offset >= 0 and every amount >= 0; an amount
\* below zero with an offset above zero makes it true at the pointers from
\* offset + amount (or 0) up to offset - 1, and those entries are removed.
NonNegative(arg) == Amount(arg.extractionStartOffset, arg.amount) >= 0
Excluded(cache, arg) ==
    {pointer \in 0..(Len(cache) - 1) :
        /\ pointer < Offset(arg.extractionStartOffset, arg.amount)
        /\ pointer >= Offset(arg.extractionStartOffset, arg.amount)
                        + Amount(arg.extractionStartOffset, arg.amount)}
LimitRemovesBelowZero ==
    [][last'.op = "limit" =>
        /\ NonNegative(last'.arg) =>
            /\ TestFalse(selection.cache, last'.arg)
            /\ selection'.cache = selection.cache
        /\ Len(selection'.cache)
              = Len(selection.cache) - Cardinality(Excluded(selection.cache, last'.arg))
        /\ \A i \in 1..Len(selection.cache) :
              (i - 1) \notin Excluded(selection.cache, last'.arg) =>
                  \E j \in 1..Len(selection'.cache) : selection'.cache[j] = selection.cache[i]]_vars
LimitRemovesBelowZeroWitness ==
    /\ last.op = "limit"
    /\ last.arg.amount # Undef
    /\ last.arg.amount.v > 0
    /\ Len(selection.cache) > last.arg.extractionStartOffset.v + last.arg.amount.v
    /\ last.arg.extractionStartOffset.v > 0

====
